---- MODULE Spec2Model ----
(***************************************************************************)
(* Model of quantum-financial-advisor:                                     *)
(*   cvar_estimator.py   calculate_var_cvar_classical,                     *)
(*                       calculate_risk_qae_enhanced                       *)
(*   quantum_lib.py      calculate_risk_qae                                *)
(*   02_quantum_optimize.py  quantum_var_estimation, uncert_model_values,  *)
(*                       classical_monte_carlo                             *)
(*   01_data_prep.py     create_data                                       *)
(*   stock_data.py       get_stock_data and its lru_cache,                 *)
(*                       generate_synthetic_data, clear_cache              *)
(*   quantum_lib.py      analyze_market,                                   *)
(*                       run_quantum_portfolio_optimization                *)
(*   server.py           analyze (POST /api/analyze), get_text_from_url    *)
(*                                                                         *)
(* Numbers.  Returns, standard deviations, thresholds and grid bounds are  *)
(* fixed-point integers in units of 1e-4; variances and covariances are in *)
(* units of 1e-8, so that sqrt maps one onto the other.  Quantities the    *)
(* code obtains by a division (percentile interpolation, the grid step,    *)
(* the tail mean) are kept as exact fractions: a numerator together with   *)
(* the denominator it is over.  A reported number is a record [n, d]       *)
(* meaning n/d; d = 0 is NaN.                                              *)
(***************************************************************************)
EXTENDS Integers, Sequences, FiniteSets, TLC

VARIABLES
    stats,   \* the statistics snapshot (mu, sigma) of this analysis
    selection_binary, \* the selector's output, consumed by the risk operations
    rng,     \* state of the process-wide generator numpy.random
    last,    \* record of the last completed operation
    mcRef,   \* an earlier completed calculate_var_cvar_classical call
    inv,     \* concurrent Monte Carlo invocations: position and locals
    cache,   \* get_stock_data's lru_cache: entries, least recently used first
    failed   \* history: per key, whether its fetch failed since the last clear

vars == <<stats, selection_binary, rng, last, mcRef, inv, cache, failed>>

\* ---------------------------------------------------------------- bounds
MaxSims == 3          \* largest num_simulations tried
DefaultSims == 4      \* stands for the default num_simulations = 10000
RngMod == 16          \* number of states of the modelled generator
ZScale == 4           \* a standard-normal draw z is an integer over ZScale
PScale == 2           \* the estimator's answers are k/PScale, k in 0..PScale
MaxQubits == 3        \* largest num_qubits passed to uncert_model_values

\* ----------------------------------------------------- program constants
Seed42 == 42                  \* np.random.seed(42)
Seed123 == 123                \* create_data(seed=123)
VarFloor == 1                 \* 1e-8, in units of 1e-8
DefaultThreshold == -1000     \* threshold=-0.1
DefaultConfidence == 95       \* confidence=0.95, in percent
FallbackStep == 100           \* 0.01, the step of a degenerate grid
FallbackProbPct == 5          \* var_probability = 0.05, in percent
QubitsRisk == 4               \* num_qubits = 4
QubitsVar == 5                \* num_qubits = 5
SpreadEnhanced == 4           \* low = p_mu - 4 * p_sigma
SpreadQae == 3                \* low = p_mu - 3 * p_sigma

\* ---------------------------------------------------------------- helpers
Max(a, b) == IF a >= b THEN a ELSE b

Pow2(n) == 2 ^ n

RECURSIVE SumOver(_, _)
SumOver(S, f) ==
    IF S = {} THEN 0
    ELSE LET x == CHOOSE y \in S : TRUE IN f[x] + SumOver(S \ {x}, f)

\* np.sqrt on the fixed-point grid: the largest r with r*r <= x
RECURSIVE SqrtBetween(_, _, _)
SqrtBetween(x, lo, hi) ==
    IF lo >= hi THEN lo
    ELSE LET mid == (lo + hi + 1) \div 2
         IN  IF mid * mid <= x THEN SqrtBetween(x, mid, hi)
             ELSE SqrtBetween(x, lo, mid - 1)

ISqrt(x) == SqrtBetween(x, 0, IF x < 46340 THEN x ELSE 46340)

\* np.percentile sorts a copy of the samples
Sorted(s) == SortSeq(s, LAMBDA a, b : a < b)

Rat(n, d) == [n |-> n, d |-> d]
NaN == Rat(0, 0)
Defined(r) == r.d > 0
\* a <= b for defined fractions with positive denominators
RatLeq(a, b) == a.n * b.d <= b.n * a.d
RatEq(a, b) == Defined(a) /\ Defined(b) /\ a.n * b.d = b.n * a.d
InUnitInterval(r) == Defined(r) /\ 0 <= r.n /\ r.n <= r.d

\* ------------------------------------------------------------ statistics
\* AssetStatistics handed to the core: mu (1e-4) and sigma (1e-8).
StatsSet ==
    { [mu |-> <<500, 300>>,
       sigma |-> << <<2000000, 0>>, <<0, 1000000>> >>],
      [mu |-> <<500, 300>>,
       sigma |-> << <<0, 0>>, <<0, 0>> >>],
      [mu |-> <<-1500, 200>>,
       sigma |-> << <<10000, 5000>>, <<5000, 10000>> >>] }

Assets == 1..2
Selections == [Assets -> {0, 1}]

\* indices = [i for i, x in enumerate(selection) if x > 0.5]
Indices(selection) == {i \in DOMAIN selection : 2 * selection[i] > 1}

\* p_mu = np.dot(weights, mu) with weights[i] = 1.0 / len(indices)
PMu(selection, mu) ==
    LET idx == Indices(selection)
    IN  SumOver(idx, mu) \div Cardinality(idx)

\* p_var = np.dot(weights, np.dot(sigma, weights))
PVar(selection, sigma) ==
    LET idx == Indices(selection)
        k == Cardinality(idx)
        row == [i \in idx |-> SumOver(idx, sigma[i])]
    IN  SumOver(idx, row) \div (k * k)

\* ------------------------------------------------------------- generator
\* numpy.random as a seeded stream: seed(s) fixes the state, every draw
\* advances it, and the value drawn is a function of the state reached.
RngSeed(s) == s % RngMod

RngStep(x) == (5 * x + 3) % RngMod

RECURSIVE RngAfter(_, _)
RngAfter(x, n) == IF n = 0 THEN x ELSE RngAfter(RngStep(x), n - 1)

\* the standard-normal value of the k-th draw from state x, over ZScale
ZDraw(x, k) == RngAfter(x, k) - (RngMod \div 2)

\* np.random.normal(p_mu, p_sigma, n) from state x: samples over ZScale
Normal(x, p_mu, p_sigma, n) ==
    [k \in 1..n |-> p_mu * ZScale + p_sigma * ZDraw(x, k)]

\* the call made without its own seeding: the generator is left as found
SeedGlobalSkipped(g) == g

\* np.random.seed(42) inside calculate_var_cvar_classical: the state the
\* generator is in after the call's own seeding
SeedGlobal(g) == RngSeed(Seed42)

\* ------------------------------------------------ classical Monte Carlo
Confidences == {50, DefaultConfidence, 100}
NumSimulations == 1..MaxSims

\* np.percentile(samples, q), linear interpolation, times 100:
\* virtual index q/100 * (n - 1) between two neighbours of the sorted copy
Percentile100(samples, q) ==
    LET n == Len(samples)
        sorted == Sorted(samples)
        pos == q * (n - 1)
        lo == pos \div 100
        rem == pos % 100
    IN  IF rem = 0 THEN 100 * sorted[lo + 1]
        ELSE 100 * sorted[lo + 1] + rem * (sorted[lo + 2] - sorted[lo + 1])

\* losses[losses > var]: the indices of the samples in the tail
TailIndices(samples, var100) ==
    {k \in DOMAIN samples : (0 - samples[k]) * 100 > var100}

\* np.mean(losses[losses > var]); the mean of an empty array is NaN
TailMean(samples, tail) ==
    IF tail = {} THEN NaN
    ELSE Rat(SumOver(tail, [k \in tail |-> 0 - samples[k]]), Cardinality(tail))

MaxLoss(samples) ==
    CHOOSE m \in {0 - samples[k] : k \in DOMAIN samples} :
        \A k \in DOMAIN samples : 0 - samples[k] <= m

EmptyKeys == {"var", "cvar", "expected_return", "volatility"}
FullKeys == EmptyKeys \cup {"max_drawdown", "confidence"}

\* the record returned for an empty selection (line 31)
ClassicalEmpty ==
    [var |-> Rat(0, 1), cvar |-> Rat(0, 1), expected_return |-> 0,
     volatility |-> 0, max_drawdown |-> 0, keys |-> EmptyKeys]

\* p_sigma = np.sqrt(max(p_var, 1e-8))
FlooredSigma(p_var) == ISqrt(Max(p_var, VarFloor))

\* lines 47-65: the statistics of the simulated returns.  var and cvar are
\* in the samples' unit (1e-4 / ZScale).
ClassicalReport(samples, p_mu, p_sigma, confidence) ==
    LET var100 == 0 - Percentile100(samples, 100 - confidence)
        tail == TailIndices(samples, var100)
    IN  [var |-> Rat(var100, 100),
         cvar |-> TailMean(samples, tail),
         expected_return |-> p_mu,
         volatility |-> p_sigma,
         max_drawdown |-> MaxLoss(samples),
         keys |-> FullKeys]

\* calculate_var_cvar_classical run from generator state g: the record it
\* returns and the state it leaves the generator in
CalculateVarCvarClassical(g, selection, mu, sigma, confidence, n) ==
    IF Indices(selection) = {}
    THEN [result |-> ClassicalEmpty, rng |-> g]
    ELSE LET p_mu == PMu(selection, mu)
             p_sigma == FlooredSigma(PVar(selection, sigma))
             g0 == SeedGlobal(g)
             samples == Normal(g0, p_mu, p_sigma, n)
         IN  [result |-> ClassicalReport(samples, p_mu, p_sigma, confidence),
              rng |-> RngAfter(g0, n)]

\* ----------------------------------------------------------------- state
NoCall == [op |-> "none"]

\* get_stock_data(tickers_tuple, period): the arguments are the cache key
CacheKeys ==
    {[tickers |-> <<"AAPL">>, period |-> "1y"],
     [tickers |-> <<"AAPL">>, period |-> "5d"],
     [tickers |-> <<"AAPL", "MSFT">>, period |-> "1y"]}

Threads == {1, 2}
Idle == [pc |-> "idle"]

Init ==
    /\ stats \in StatsSet
    /\ selection_binary \in Selections
    /\ rng \in 0..(RngMod - 1)
    /\ last = NoCall
    /\ mcRef = NoCall
    /\ inv = [t \in Threads |-> Idle]
    /\ cache = <<>>
    /\ failed = [key \in CacheKeys |-> "no"]

Sequential == \A t \in Threads : inv[t] = Idle

\* ------------------------------------------------------ sequential calls
\* calculate_var_cvar_classical(selection, mu, sigma, confidence, n);
\* mcRef may keep the call made before this one, to compare the two
ClassicalCall ==
    \E confidence \in Confidences, n \in NumSimulations, keep \in BOOLEAN :
        LET r == CalculateVarCvarClassical(rng, selection_binary, stats.mu,
                                           stats.sigma, confidence, n)
            rec == [op |-> "calculate_var_cvar_classical",
                    selection |-> selection_binary, confidence |-> confidence,
                    num_simulations |-> n, status |-> "returned",
                    result |-> r.result]
        IN  /\ Sequential
            /\ rng' = r.rng
            /\ last' = rec
            /\ mcRef' = IF keep /\ last # NoCall THEN last ELSE mcRef
            /\ UNCHANGED <<cache, failed, stats, selection_binary, inv>>

\* classical_monte_carlo: np.random.multivariate_normal(mu, sigma, n)
\* draws n vectors of len(mu) values without seeding
ClassicalMonteCarlo ==
    \E n \in NumSimulations :
        /\ Sequential
        /\ rng' = RngAfter(rng, n * Len(stats.mu))
        /\ UNCHANGED <<cache, failed, stats, selection_binary, last, mcRef, inv>>

\* create_data(num_assets, seed=123): seed, then num_assets + num_assets^2
\* uniform draws
CreateData ==
    \E num_assets \in Assets :
        /\ Sequential
        /\ rng' = RngAfter(RngSeed(Seed123), num_assets + num_assets * num_assets)
        /\ UNCHANGED <<cache, failed, stats, selection_binary, last, mcRef, inv>>

\* generate_synthetic_data(tickers): seed 42, then n + n^2 uniform draws
GenerateSyntheticData ==
    \E n \in Assets :
        /\ Sequential
        /\ rng' = RngAfter(RngSeed(Seed42), n + n * n)
        /\ UNCHANGED <<cache, failed, stats, selection_binary, last, mcRef, inv>>

\* The Monte Carlo baseline among the other users of the global generator
NextMC ==
    \/ ClassicalCall
    \/ ClassicalMonteCarlo
    \/ CreateData
    \/ GenerateSyntheticData

SpecMC == Init /\ [][NextMC]_vars

\* ------------------------------------------------ tail probabilities
Thresholds == {-100000, DefaultThreshold, 0}

\* What the quantum library does in one call: NormalDistribution(...)
\* raises, building the oracle circuit raises, ae.estimate raises, or
\* ae.estimate returns k/PScale.
Outcomes ==
    {[fault |-> f, est |-> 0] : f \in {"distribution", "circuit", "estimate"}}
        \cup {[fault |-> "none", est |-> k] : k \in 0..PScale}

\* the step taken over 2^n intervals instead of the 2^n - 1 between 2^n points
UncertStepOverPoints(low, high, num_qubits) == Rat(high - low, Pow2(num_qubits))

\* step = (high - low) / (2**num_qubits - 1)
UncertStep(low, high, num_qubits) == Rat(high - low, Pow2(num_qubits) - 1)

\* step = (high - low) / (2**num_qubits - 1) if high > low else 0.01
EnhancedStep(low, high, num_qubits) ==
    IF high > low THEN Rat(high - low, Pow2(num_qubits) - 1)
    ELSE Rat(FallbackStep, 1)

\* values = [low + i * step for i in range(2**num_qubits)], as numerators
\* over step.d; values[i + 1] is the code's values[i]
GridValues(low, step, num_qubits) ==
    [j \in 1..Pow2(num_qubits) |-> low * step.d + (j - 1) * step.n]

\* the comparison turned round: the states above the threshold
GoodStatesAbove(values, d, threshold) ==
    {j - 1 : j \in {i \in DOMAIN values : values[i] > threshold * d}}

\* good_states = [i for i, v in enumerate(values) if v < threshold]
GoodStates(values, d, threshold) ==
    {j - 1 : j \in {i \in DOMAIN values : values[i] < threshold * d}}

\* p_sigma = np.sqrt(p_var)
RawSigma(p_var) == ISqrt(p_var)

\* the part of a call's record that describes its grid
GridPart(p_mu, p_sigma, low, high, step, num_qubits, values) ==
    [p_mu |-> p_mu, p_sigma |-> p_sigma, low |-> low, high |-> high,
     step |-> step, num_qubits |-> num_qubits, values |-> values]

\* 02_quantum_optimize.uncert_model_values(num_qubits, bounds)
UncertModelValues(num_qubits, low, high) ==
    GridValues(low, UncertStep(low, high, num_qubits), num_qubits)

\* get_values() inside calculate_risk_qae
GetValues(low, high, num_qubits) ==
    GridValues(low, UncertStep(low, high, num_qubits), num_qubits)

\* the grid together with the states marked for a threshold
Marked(g, threshold) ==
    [good_states |-> GoodStates(g.values, g.step.d, threshold)] @@ g

NoGrid == [num_qubits |-> 0]

Call(op, selection, threshold, status, path, prob, calls, failure, grid, keys) ==
    [op |-> op, selection |-> selection, threshold |-> threshold,
     status |-> status, path |-> path, prob |-> prob,
     estimator_calls |-> calls, failure |-> failure, grid |-> grid,
     keys |-> keys]

\* quantum_lib.calculate_risk_qae(selection, mu, sigma, threshold)
CalculateRiskQae(selection, mu, sigma, threshold, outcome) ==
    LET op == "calculate_risk_qae" IN
    IF Indices(selection) = {}
    THEN Call(op, selection, threshold, "returned", "empty_selection",
              Rat(0, 1), 0, "none", NoGrid, {})
    ELSE
    LET p_mu == PMu(selection, mu)
        p_sigma == RawSigma(PVar(selection, sigma))
        low == p_mu - SpreadQae * p_sigma
        high == p_mu + SpreadQae * p_sigma
        partial == [NoGrid EXCEPT !.num_qubits = QubitsRisk] @@
                   [p_mu |-> p_mu, p_sigma |-> p_sigma, low |-> low,
                    high |-> high]
        g == Marked(GridPart(p_mu, p_sigma, low, high,
                        UncertStep(low, high, QubitsRisk), QubitsRisk,
                        GetValues(low, high, QubitsRisk)), threshold)
    IN  IF outcome.fault = "distribution"
        THEN Call(op, selection, threshold, "raised", "raised", NaN, 0,
                  outcome.fault, partial, {})
        ELSE IF g.good_states = {}
        THEN Call(op, selection, threshold, "returned", "empty_bad",
                  Rat(0, 1), 0, "none", g, {})
        ELSE IF outcome.fault = "circuit"
        THEN Call(op, selection, threshold, "raised", "raised", NaN, 0,
                  outcome.fault, g, {})
        ELSE IF outcome.fault = "estimate"
        THEN Call(op, selection, threshold, "raised", "raised", NaN, 1,
                  outcome.fault, g, {})
        ELSE Call(op, selection, threshold, "returned", "estimated",
                  Rat(outcome.est, PScale), 1, "none", g, {})

EnhancedEmptyKeys == {"var_probability", "cvar_estimate", "threshold"}
EnhancedFullKeys ==
    EnhancedEmptyKeys \cup {"var_classical", "expected_return", "volatility",
                            "max_drawdown", "classical"}

\* a number in the samples' unit (1e-4 / ZScale) as a plain number
AsNumber(r) == Rat(r.n, r.d * ZScale * 10000)

\* cvar_estimator.calculate_risk_qae_enhanced(selection, mu, sigma,
\* threshold), given the record its classical call returned
CalculateRiskQaeEnhanced(selection, mu, sigma, threshold, outcome, classical_result) ==
    LET op == "calculate_risk_qae_enhanced" IN
    IF Indices(selection) = {}
    THEN Call(op, selection, threshold, "returned", "empty_selection",
              Rat(0, 1), 0, "none", NoGrid, EnhancedEmptyKeys)
    ELSE
    LET p_mu == PMu(selection, mu)
        p_sigma == FlooredSigma(PVar(selection, sigma))
        low == p_mu - SpreadEnhanced * p_sigma
        high == p_mu + SpreadEnhanced * p_sigma
        partial == [NoGrid EXCEPT !.num_qubits = QubitsRisk] @@
                   [p_mu |-> p_mu, p_sigma |-> p_sigma, low |-> low,
                    high |-> high]
        step == EnhancedStep(low, high, QubitsRisk)
        g == Marked(GridPart(p_mu, p_sigma, low, high, step, QubitsRisk,
                        GridValues(low, step, QubitsRisk)), threshold)
    IN  IF outcome.fault = "distribution"
        THEN Call(op, selection, threshold, "returned", "classical_fallback",
                  AsNumber(classical_result.var), 0, outcome.fault, partial,
                  EnhancedEmptyKeys \cup {"classical_fallback"})
        ELSE IF g.good_states = {}
        THEN Call(op, selection, threshold, "returned", "empty_bad",
                  Rat(0, 1), 0, "none", g,
                  EnhancedEmptyKeys \cup {"classical"})
        ELSE IF outcome.fault = "circuit"
        THEN Call(op, selection, threshold, "raised", "raised", NaN, 0,
                  outcome.fault, g, {})
        ELSE IF outcome.fault = "estimate"
        THEN Call(op, selection, threshold, "returned", "estimate_fallback",
                  Rat(FallbackProbPct, 100), 1, outcome.fault, g, EnhancedFullKeys)
        ELSE Call(op, selection, threshold, "returned", "estimated",
                  Rat(outcome.est, PScale), 1, "none", g, EnhancedFullKeys)

\* 02_quantum_optimize.quantum_var_estimation(mu_p, sigma_p, threshold)
QuantumVarEstimation(mu_p, sigma_p, threshold, outcome) ==
    LET op == "quantum_var_estimation"
        low == mu_p - SpreadEnhanced * sigma_p
        high == mu_p + SpreadEnhanced * sigma_p
        partial == [NoGrid EXCEPT !.num_qubits = QubitsVar] @@
                   [p_mu |-> mu_p, p_sigma |-> sigma_p, low |-> low,
                    high |-> high]
        g == Marked(GridPart(mu_p, sigma_p, low, high,
                        UncertStep(low, high, QubitsVar), QubitsVar,
                        UncertModelValues(QubitsVar, low, high)), threshold)
    IN  IF outcome.fault = "distribution"
        THEN Call(op, <<>>, threshold, "raised", "raised", NaN, 0, outcome.fault,
                  partial, {})
        ELSE IF outcome.fault = "circuit"
        THEN Call(op, <<>>, threshold, "raised", "raised", NaN, 0, outcome.fault,
                  g, {})
        ELSE IF outcome.fault = "estimate"
        THEN Call(op, <<>>, threshold, "raised", "raised", NaN, 1, outcome.fault,
                  g, {})
        ELSE Call(op, <<>>, threshold, "returned", "estimated",
                  Rat(outcome.est, PScale), 1, "none", g, {})

\* the scalar model handed to the grid functions of 02_quantum_optimize:
\* the sub-portfolio of the selection or, as its __main__ does, of equal
\* weights over all assets; p_sigma = np.sqrt(p_var)
ScalarModel ==
    LET w == IF Indices(selection_binary) = {} THEN [i \in Assets |-> 1]
             ELSE selection_binary
    IN  [mu_p |-> PMu(w, stats.mu), sigma_p |-> RawSigma(PVar(w, stats.sigma))]

RiskQae ==
    \E threshold \in Thresholds, outcome \in Outcomes :
        /\ Sequential
        /\ last' = CalculateRiskQae(selection_binary, stats.mu, stats.sigma,
                                    threshold, outcome)
        /\ UNCHANGED <<cache, failed, stats, selection_binary, rng, mcRef, inv>>

\* line 103 runs calculate_var_cvar_classical with its default arguments
\* once the selection is known to be non-empty
RiskQaeEnhanced ==
    \E threshold \in Thresholds, outcome \in Outcomes :
        LET r == CalculateVarCvarClassical(rng, selection_binary, stats.mu,
                     stats.sigma, DefaultConfidence, DefaultSims)
        IN  /\ Sequential
            /\ last' = CalculateRiskQaeEnhanced(selection_binary, stats.mu,
                            stats.sigma, threshold, outcome, r.result)
            /\ rng' = r.rng
            /\ UNCHANGED <<cache, failed, stats, selection_binary, mcRef, inv>>

QuantumVarEstimationCall ==
    \E threshold \in Thresholds, outcome \in Outcomes :
        /\ Sequential
        /\ last' = QuantumVarEstimation(ScalarModel.mu_p, ScalarModel.sigma_p,
                                        threshold, outcome)
        /\ UNCHANGED <<cache, failed, stats, selection_binary, rng, mcRef, inv>>

UncertModelValuesCall ==
    \E num_qubits \in 1..MaxQubits, k \in {SpreadQae, SpreadEnhanced} :
        LET m == ScalarModel
            low == m.mu_p - k * m.sigma_p
            high == m.mu_p + k * m.sigma_p
        IN  /\ Sequential
            /\ last' = [op |-> "uncert_model_values", status |-> "returned",
                        grid |-> GridPart(m.mu_p, m.sigma_p, low, high,
                                     UncertStep(low, high, num_qubits),
                                     num_qubits,
                                     UncertModelValues(num_qubits, low, high))]
            /\ UNCHANGED <<cache, failed, stats, selection_binary, rng, mcRef, inv>>

\* The tail-probability operations of one analysis, one call at a time
Next ==
    \/ UncertModelValuesCall
    \/ QuantumVarEstimationCall
    \/ RiskQae
    \/ RiskQaeEnhanced

Spec == Init /\ [][Next]_vars

\* ------------------------------------------------- concurrent requests
\* Two requests run calculate_var_cvar_classical (directly, or as line 103
\* of calculate_risk_qae_enhanced does, with the default arguments), each on
\* its own selection.  A thread may be switched out between two calls into
\* numpy; the statements between them touch only the invocation's locals.

\* lines 25-41: indices, weights, p_mu, p_sigma
McStart(t) ==
    \E selection \in Selections :
        /\ inv[t].pc = "idle"
        /\ inv' = [inv EXCEPT ![t] =
                IF Indices(selection) = {}
                THEN [pc |-> "done", selection |-> selection,
                      num_simulations |-> DefaultSims,
                      result |-> ClassicalEmpty]
                ELSE [pc |-> "seed", selection |-> selection,
                      num_simulations |-> DefaultSims,
                      p_mu |-> PMu(selection, stats.mu),
                      p_sigma |-> FlooredSigma(PVar(selection, stats.sigma))]]
        /\ UNCHANGED <<cache, failed, stats, selection_binary, rng, last, mcRef>>

\* line 44: np.random.seed(42)
McSeed(t) ==
    /\ inv[t].pc = "seed"
    /\ rng' = SeedGlobal(rng)
    /\ inv' = [inv EXCEPT ![t].pc = "draw"]
    /\ UNCHANGED <<cache, failed, stats, selection_binary, last, mcRef>>

\* line 45: np.random.normal(p_mu, p_sigma, num_simulations), and the rest
\* of the function on the samples drawn
McDraw(t) ==
    /\ inv[t].pc = "draw"
    /\ LET c == inv[t]
           samples == Normal(rng, c.p_mu, c.p_sigma, c.num_simulations)
       IN  /\ rng' = RngAfter(rng, c.num_simulations)
           /\ inv' = [inv EXCEPT ![t] =
                   [pc |-> "done", selection |-> c.selection,
                    num_simulations |-> c.num_simulations,
                    result |-> ClassicalReport(samples, c.p_mu, c.p_sigma,
                                               DefaultConfidence)]]
    /\ UNCHANGED <<cache, failed, stats, selection_binary, last, mcRef>>

NextConc == \E t \in Threads : McStart(t) \/ McSeed(t) \/ McDraw(t)

SpecConc == Init /\ [][NextConc]_vars

\* what the invocation of thread t returns when nothing else runs
RunAlone(t) ==
    CalculateVarCvarClassical(rng, inv[t].selection, stats.mu, stats.sigma,
                              DefaultConfidence, inv[t].num_simulations).result

\* ---------------------------------------------------------- the selector
\* What MinimumEigenOptimizer.solve answers: result.x is None, or a bit
\* vector over the n assets.  The budget enters the problem handed to the
\* solver as a constraint that the QUBO conversion turns into a penalty, so
\* no answer is excluded here.
NoSolution == [found |-> FALSE, x |-> <<>>]
SolverAnswers(n) ==
    {NoSolution} \cup {[found |-> TRUE, x |-> v] : v \in [1..n -> {0, 1}]}

Budgets(n) == 1..n
RiskFactors == {1}            \* risk_factor = 0.5, in halves

\* the objective the problem minimizes, risk_factor * x'.sigma.x - mu.x,
\* in units of 1e-8 over 2
Objective(x, mu, sigma, risk_factor) ==
    LET on == {i \in DOMAIN x : x[i] = 1}
        row == [i \in on |-> SumOver(on, sigma[i])]
    IN  Rat(risk_factor * SumOver(on, row) - 2 * 10000 * SumOver(on, mu), 2)

\* run_quantum_portfolio_optimization(mu, sigma, risk_factor, budget), given
\* the solver's answer: (selection, result.fval)
RunQuantumPortfolioOptimization(mu, sigma, risk_factor, budget, answer) ==
    [selection |-> IF answer.found THEN answer.x ELSE <<>>,
     fval |-> IF answer.found
              THEN Objective(answer.x, mu, sigma, risk_factor)
              ELSE NaN]

\* a call of the selector on the statistics; its selection is what the
\* risk operations are then given
Optimize ==
    \E budget \in Budgets(Len(stats.mu)), risk_factor \in RiskFactors,
       answer \in SolverAnswers(Len(stats.mu)) :
        LET r == RunQuantumPortfolioOptimization(stats.mu, stats.sigma,
                                                 risk_factor, budget, answer)
        IN  /\ Sequential
            /\ selection_binary' = r.selection
            /\ last' = [op |-> "run_quantum_portfolio_optimization",
                        n |-> Len(stats.mu), budget |-> budget,
                        risk_factor |-> risk_factor, found |-> answer.found,
                        selection |-> r.selection, fval |-> r.fval]
            /\ UNCHANGED <<cache, failed, stats, rng, mcRef, inv>>

\* ------------------------------------------------- the marking circuit
\* The circuit is a sequence of gates on the register qubits 0..n-1 and the
\* objective qubit n.  A basis state is the register's bits as a number
\* (bit q is qubit q), the objective bit, and the number of times the
\* objective bit has been flipped.
Bit(idx, q) == (idx \div Pow2(q)) % 2

RECURSIVE Ascending(_)
\* a list comprehension over enumerate(values): indices in increasing order
Ascending(S) ==
    IF S = {} THEN <<>>
    ELSE LET m == CHOOSE x \in S : \A y \in S : x <= y
         IN  <<m>> \o Ascending(S \ {m})

Qubits(n) == [i \in 1..n |-> i - 1]

XGate(q) == [gate |-> "x", q |-> q]
McxGate == [gate |-> "mcx", q |-> -1]

\* for q in range(n): if ((idx >> q) & 1): qc.x(q)
ComplementOnes(idx, n) ==
    LET qs == SelectSeq(Qubits(n), LAMBDA q : Bit(idx, q) = 1)
    IN  [i \in DOMAIN qs |-> XGate(qs[i])]

\* for q in range(n): if not ((idx >> q) & 1): qc.x(q)
ComplementZeros(idx, n) ==
    LET qs == SelectSeq(Qubits(n), LAMBDA q : Bit(idx, q) = 0)
    IN  [i \in DOMAIN qs |-> XGate(qs[i])]

\* one pass of the loop body for the index idx
MarkIndex(idx, n) ==
    ComplementZeros(idx, n) \o <<McxGate>> \o ComplementZeros(idx, n)

\* qc.x(q) and qc.mcx(range(n), n) on a basis state
ApplyGate(b, g, n) ==
    IF g.gate = "x"
    THEN [b EXCEPT !.reg = IF Bit(b.reg, g.q) = 1 THEN b.reg - Pow2(g.q)
                                                ELSE b.reg + Pow2(g.q)]
    ELSE IF b.reg = Pow2(n) - 1
         THEN [b EXCEPT !.objective = 1 - b.objective, !.flips = b.flips + 1]
         ELSE b

RECURSIVE RunGates(_, _, _, _)
\* the gates in order; a gate takes a basis state to a basis state
RunGates(b, gates, i, n) ==
    IF i > Len(gates) THEN b
    ELSE LET after == ApplyGate(b, gates[i], n)
         IN  IF after.reg \in 0..(Pow2(n) - 1)
             THEN RunGates(after, gates, i + 1, n)
             ELSE after

RECURSIVE MarkingLoop(_, _, _)
\* for idx in good_states: ... on the basis state b
MarkingLoop(b, indices, n) ==
    IF indices = <<>> THEN b
    ELSE LET after == RunGates(b, MarkIndex(Head(indices), n), 1, n)
         IN  IF after.reg \in 0..(Pow2(n) - 1)
             THEN MarkingLoop(after, Tail(indices), n)
             ELSE after

\* the marking loop of a call that reached its circuit, run on every basis
\* state of the register
MarkedCircuit(c) ==
    LET n == c.grid.num_qubits
        indices == Ascending(c.grid.good_states)
    IN  [op |-> "mark_bad_states", of |-> c.op, threshold |-> c.threshold,
         grid |-> c.grid,
         final |-> [s \in 0..(Pow2(n) - 1) |->
                      MarkingLoop([reg |-> s, objective |-> 0, flips |-> 0],
                                  indices, n)]]

EstimateOnly == [fault |-> "none", est |-> 0]

\* calculate_risk_qae up to the circuit it hands to the estimator
MarkBadStatesQae ==
    \E threshold \in Thresholds :
        LET c == CalculateRiskQae(selection_binary, stats.mu, stats.sigma,
                                  threshold, EstimateOnly)
        IN  /\ Sequential
            /\ c.path = "estimated"
            /\ last' = MarkedCircuit(c)
            /\ UNCHANGED <<cache, failed, stats, selection_binary, rng, mcRef, inv>>

\* calculate_risk_qae_enhanced up to the circuit it hands to the estimator
MarkBadStatesEnhanced ==
    \E threshold \in Thresholds :
        LET k == CalculateVarCvarClassical(rng, selection_binary, stats.mu,
                                           stats.sigma, DefaultConfidence,
                                           DefaultSims)
            c == CalculateRiskQaeEnhanced(selection_binary, stats.mu,
                                          stats.sigma, threshold, EstimateOnly,
                                          k.result)
        IN  /\ Sequential
            /\ c.path = "estimated"
            /\ rng' = k.rng
            /\ last' = MarkedCircuit(c)
            /\ UNCHANGED <<cache, failed, stats, selection_binary, mcRef, inv>>

\* the selector, and the oracle circuits built for its selection
NextOracle == Optimize \/ MarkBadStatesQae \/ MarkBadStatesEnhanced

SpecOracle == Init /\ [][NextOracle]_vars

\* ------------------------------------------------------ the web handler
\* A text is a sequence of tokens: a blank, a URL scheme, or a word.
MaxTextLen == 2
Blank == " "
Schemes == {"http://", "https://"}
Words == {"growth"}
Tokens == {Blank} \cup Schemes \cup Words
Texts == UNION {[1..n -> Tokens] : n \in 0..MaxTextLen}

\* the text taken as it came, without strip()
Unstripped(text) == text

RECURSIVE StripLeft(_)
StripLeft(text) ==
    IF text # <<>> /\ Head(text) = Blank THEN StripLeft(Tail(text)) ELSE text

RECURSIVE StripRight(_)
StripRight(text) ==
    IF text # <<>> /\ text[Len(text)] = Blank
    THEN StripRight(SubSeq(text, 1, Len(text) - 1))
    ELSE text

\* str.strip()
Stripped(text) == StripRight(StripLeft(text))

\* user_input.startswith('http://') or user_input.startswith('https://')
StartsWithScheme(text) == text # <<>> /\ Head(text) \in Schemes

\* request.json: a JSON object with or without the key "text", or a body
\* that is no object (data.get then raises)
Requests ==
    {[json |-> "object", text |-> t] : t \in Texts}
        \cup {[json |-> "null", text |-> <<>>]}

\* what get_text_from_url returns: "" when the fetch or the parse raised or
\* the page has no text, else the page's title and paragraphs
Scrapes == {<<>>, <<Blank>>, <<"inflation">>}

\* quantum_lib.analyze_market(text_input): the regime's table, returned as
\* the tuple (tickers, mu, sigma)
Regime(text_input) ==
    IF \E i \in DOMAIN text_input : text_input[i] \in {"inflation", "conflict"}
    THEN "defensive"
    ELSE IF \E i \in DOMAIN text_input :
                text_input[i] \in {"growth", "tech", "boom"}
    THEN "aggressive"
    ELSE "neutral"

Eye(diag, off) == [i \in 1..4 |-> [j \in 1..4 |-> IF i = j THEN diag ELSE off]]

AnalyzeMarket(text_input) ==
    LET regime == Regime(text_input)
    IN  IF regime = "defensive"
        THEN [kind |-> "tuple",
              tickers |-> <<"Gold", "Utility", "Bonds", "Consumer Staples">>,
              mu |-> <<500, 400, 300, 400>>,
              sigma |-> << <<2000000, 500000, 100000, 1000000>>,
                           <<500000, 2000000, 500000, 1000000>>,
                           <<100000, 500000, 1000000, 100000>>,
                           <<1000000, 1000000, 100000, 2000000>> >>]
        ELSE IF regime = "aggressive"
        THEN [kind |-> "tuple",
              tickers |-> <<"Tech", "Crypto", "BioTech", "Semiconductor">>,
              mu |-> <<1500, 2000, 1200, 1800>>,
              sigma |-> Eye(10000000, 2000000)]
        ELSE [kind |-> "tuple",
              tickers |-> <<"S&P500", "Bonds", "RealEstate", "Commodities">>,
              mu |-> <<800, 300, 600, 500>>,
              sigma |-> Eye(5000000, 1000000)]

\* analysis["tickers"]: a tuple indexed by a string raises TypeError
HasKey(analysis, key) == analysis.kind = "dict" /\ key \in DOMAIN analysis

ErrorKeys == {"status", "message"}
SuccessKeys == {"status", "analysis", "candidates", "result"}

\* jsonify({'status': 'error', 'message': ...}), code
ErrorResponse(req, scraped, code, steps, raised) ==
    [op |-> "analyze", request |-> req, scraped |-> scraped, http |-> code,
     status |-> "error", keys |-> ErrorKeys, steps |-> steps,
     raised |-> raised]

Min(a, b) == IF a <= b THEN a ELSE b

\* lines 64-111: selection, weights, risk and the success response of a
\* request whose analysis has the fields the handler reads
AnalyzeSelected(req, scraped, steps, analysis, answer, outcome) ==
    LET tickers == analysis.tickers
        mu == analysis.mu
        sigma == analysis.sigma
        budget == Min(2, Len(tickers))
        r == RunQuantumPortfolioOptimization(mu, sigma, 1, budget, answer)
        indices == Ascending(Indices(r.selection))
        k == Len(indices)
        steps2 == Append(steps, "run_quantum_portfolio_optimization")
        steps3 == Append(steps2, "calculate_risk_qae")
        risk == CalculateRiskQae(r.selection, mu, sigma, DefaultThreshold,
                                 outcome)
    IN  IF k > 0 /\ ~HasKey(analysis, "names")
        THEN ErrorResponse(req, scraped, 500, steps2, "KeyError")
        ELSE IF risk.status = "raised"
        THEN ErrorResponse(req, scraped, 500, steps3, risk.failure)
        ELSE IF ~Defined(r.fval)
        THEN ErrorResponse(req, scraped, 500, steps3, "TypeError")
        ELSE [op |-> "analyze", request |-> req, scraped |-> scraped,
              http |-> 200, status |-> "success", keys |-> SuccessKeys,
              steps |-> steps3, raised |-> "none",
              selection |-> r.selection, risk |-> risk,
              result |->
                [selected_tickers |-> [j \in 1..k |-> tickers[indices[j]]],
                 selected_names |-> [j \in 1..k |-> analysis.names[indices[j]]],
                 weights |-> [j \in 1..k |-> Rat(1, k)],
                 expected_return |->
                    IF k > 0 THEN SumOver(Indices(r.selection), mu) \div k
                    ELSE 0,
                 risk_probability |-> risk.prob,
                 optimal_value |-> r.fval]]

\* server.analyze: the response to one POST /api/analyze
AnalyzeHandler(req, scraped, answer, outcome) ==
    IF req.json # "object"
    THEN ErrorResponse(req, scraped, 500, <<>>, "AttributeError")
    ELSE
    LET user_input == Stripped(req.text)
        is_url == StartsWithScheme(user_input)
        steps == IF is_url THEN <<"get_text_from_url">> ELSE <<>>
        text == IF is_url THEN scraped ELSE user_input
        analysis == AnalyzeMarket(text)
        steps1 == Append(steps, "analyze_market")
    IN  IF user_input = <<>>
        THEN ErrorResponse(req, scraped, 400, <<>>, "none")
        ELSE IF is_url /\ scraped = <<>>
        THEN ErrorResponse(req, scraped, 400, steps, "none")
        ELSE IF ~HasKey(analysis, "tickers")
        THEN ErrorResponse(req, scraped, 500, steps1, "TypeError")
        ELSE AnalyzeSelected(req, scraped, steps1, analysis, answer, outcome)

\* the request is one whose handling calls the step
Reaches(req, scraped, step) ==
    LET r == AnalyzeHandler(req, scraped, NoSolution, EstimateOnly)
    IN  \E i \in DOMAIN r.steps : r.steps[i] = step

\* one POST /api/analyze, with what the page fetch, the solver and the
\* estimator answer when the handler gets to ask them
Analyze ==
    \E req \in Requests :
        \E scraped \in (IF req.json = "object"
                           /\ StartsWithScheme(Stripped(req.text))
                        THEN Scrapes ELSE {<<>>}) :
            \E answer \in (IF Reaches(req, scraped,
                                      "run_quantum_portfolio_optimization")
                           THEN SolverAnswers(4) ELSE {NoSolution}),
               outcome \in (IF Reaches(req, scraped, "calculate_risk_qae")
                            THEN Outcomes ELSE {EstimateOnly}) :
                /\ Sequential
                /\ last' = AnalyzeHandler(req, scraped, answer, outcome)
                /\ UNCHANGED <<cache, failed, stats, selection_binary, rng, mcRef, inv>>

NextWeb == Analyze

SpecWeb == Init /\ [][NextWeb]_vars

\* -------------------------------------------------- the statistics cache
\* yf.download answers with data, raises, answers with no data, or answers
\* with fewer than 20 return rows
FetchOutcomes == {"ok", "raise", "empty", "short"}

\* np.random.uniform(low, low + width) from the generator state x
Uniform(x, low, width) == low + (x * width) \div RngMod

\* the record made without its own seeding: the generator is left as found
SyntheticSeedSkipped(g) == g

\* np.random.seed(42) in generate_synthetic_data
SyntheticSeed(g) == RngSeed(Seed42)

\* generate_synthetic_data(tickers) from generator state g: the record and
\* the state the generator is left in.  mu is in 1e-4, sigma in 1e-8.
SyntheticData(g, tickers) ==
    LET n == Len(tickers)
        g0 == SyntheticSeed(g)
        mu == [i \in 1..n |-> Uniform(RngAfter(g0, i), 500, 1000)]
        A == [i \in 1..n |-> [j \in 1..n |->
                Uniform(RngAfter(g0, n + (i - 1) * n + j), -1000, 2000)]]
        sigma == [i \in 1..n |-> [j \in 1..n |->
                    SumOver(1..n, [k \in 1..n |-> A[i][k] * A[j][k]])
                        + (IF i = j THEN 4000000 ELSE 0)]]
    IN  [record |-> [tickers |-> tickers, names |-> tickers, mu |-> mu,
                     sigma |-> sigma, returns_1y |-> mu, synthetic |-> TRUE],
         rng |-> RngAfter(g0, n + n * n)]

\* lines 33-68: the statistics of downloaded prices; the record has no
\* field synthetic
FetchedData(tickers) ==
    [tickers |-> tickers, names |-> tickers,
     mu |-> [i \in DOMAIN tickers |-> 1000],
     sigma |-> [i \in DOMAIN tickers |-> [j \in DOMAIN tickers |->
                  IF i = j THEN 4000000 ELSE 1000000]],
     returns_1y |-> [i \in DOMAIN tickers |-> 1200]]

\* the body of get_stock_data: every failure of the fetch is caught and
\* answered with the synthetic record
GetStockDataBody(g, key, outcome) ==
    IF outcome = "ok"
    THEN [record |-> FetchedData(key.tickers), rng |-> g]
    ELSE SyntheticData(g, key.tickers)

MaxSize == 2          \* stands for lru_cache(maxsize=100)

\* a lookup that never finds an entry
LookupNothing(c, key) == 0

\* position of the key's entry in the cache, 0 when it has none
Lookup(c, key) ==
    IF \E i \in DOMAIN c : c[i].key = key
    THEN CHOOSE i \in DOMAIN c : c[i].key = key
    ELSE 0

\* a hit makes the entry the most recently used
Touch(c, i) ==
    SubSeq(c, 1, i - 1) \o SubSeq(c, i + 1, Len(c)) \o <<c[i]>>

\* a miss stores the result, dropping the least recently used entry of a
\* full cache
Store(c, entry) ==
    IF Len(c) >= MaxSize THEN Append(Tail(c), entry) ELSE Append(c, entry)

\* the keys dropped from the cache by storing one more entry
Dropped(c) == IF Len(c) >= MaxSize THEN {Head(c).key} ELSE {}

\* get_stock_data(tickers_tuple, period) through its lru_cache
GetStockData ==
    \E key \in CacheKeys :
        LET i == Lookup(cache, key)
        IN  /\ Sequential
            /\ IF i > 0
               THEN /\ cache' = Touch(cache, i)
                    /\ last' = [op |-> "get_stock_data", key |-> key,
                                fetched |-> FALSE, outcome |-> "hit",
                                status |-> "returned",
                                record |-> cache[i].record,
                                failed_before |-> failed[key],
                                after |-> last.op]
                    /\ UNCHANGED <<rng, failed>>
               ELSE \E outcome \in FetchOutcomes :
                      LET r == GetStockDataBody(rng, key, outcome)
                      IN  /\ cache' = Store(cache, [key |-> key,
                                                    record |-> r.record])
                          /\ rng' = r.rng
                          /\ last' = [op |-> "get_stock_data", key |-> key,
                                      fetched |-> TRUE, outcome |-> outcome,
                                      status |-> "returned",
                                      record |-> r.record,
                                      failed_before |-> failed[key],
                                      after |-> last.op]
                          /\ failed' = [k \in CacheKeys |->
                                IF k = key /\ outcome # "ok" THEN "held"
                                ELSE IF k \in Dropped(cache)
                                        /\ failed[k] = "held" THEN "dropped"
                                ELSE failed[k]]
            /\ UNCHANGED <<stats, selection_binary, mcRef, inv>>

\* clear_cache(): get_stock_data.cache_clear()
ClearCache ==
    /\ Sequential
    /\ cache' = <<>>
    /\ failed' = [key \in CacheKeys |-> "no"]
    /\ last' = [op |-> "clear_cache"]
    /\ UNCHANGED <<stats, selection_binary, rng, mcRef, inv>>

\* the cache reads neither the statistics snapshot nor the selection: one
\* of each
InitData ==
    /\ Init
    /\ selection_binary = [i \in Assets |-> 0]
    /\ stats.mu[1] < 0

NextData == GetStockData \/ ClearCache

SpecData == InitData /\ [][NextData]_vars

\* ------------------------------------------------------------- claims
IsClassical(c) == c.op = "calculate_var_cvar_classical"

SameInputs(a, b) ==
    /\ a.selection = b.selection
    /\ a.confidence = b.confidence
    /\ a.num_simulations = b.num_simulations

\* C1: every call of calculate_var_cvar_classical with a non-empty
\* selection returns a cvar that is a defined number with cvar >= var,
\* for every confidence and every num_simulations >= 1.
C1_CvarDefinedAndAtLeastVar ==
    (IsClassical(last) /\ Indices(last.selection) # {}) =>
        /\ Defined(last.result.cvar)
        /\ RatLeq(last.result.var, last.result.cvar)

\* C2: two calls of calculate_var_cvar_classical with identical inputs
\* return identical (var, cvar), whatever drew from or reseeded the global
\* generator before or between them.
C2_RepeatedCallsAgree ==
    (IsClassical(last) /\ IsClassical(mcRef) /\ SameInputs(last, mcRef)) =>
        /\ last.result.var = mcRef.result.var
        /\ last.result.cvar = mcRef.result.cvar

\* two distinct calls with the same inputs on a non-empty selection, the
\* second of which found the generator elsewhere than its seeded state
C2_Witness ==
    /\ IsClassical(last) /\ IsClassical(mcRef) /\ SameInputs(last, mcRef)
    /\ Indices(last.selection) # {}
    /\ last.num_simulations > 1
    /\ Defined(last.result.cvar)

\* C3: when two invocations of the Monte Carlo baseline run concurrently,
\* under every interleaving of their seeding and drawing steps each returns
\* the (var, cvar) it returns when run alone.
C3_ConcurrentAsAlone ==
    \A t \in Threads :
        inv[t].pc = "done" =>
            /\ inv[t].result.var = RunAlone(t).var
            /\ inv[t].result.cvar = RunAlone(t).cvar

IsRiskQae(c) == c.op = "calculate_risk_qae"
IsEnhanced(c) == c.op = "calculate_risk_qae_enhanced"
IsVarEstimation(c) == c.op = "quantum_var_estimation"
IsUncertValues(c) == c.op = "uncert_model_values"

\* the call got as far as building its grid
GridBuilt(c) ==
    /\ IsRiskQae(c) \/ IsEnhanced(c) \/ IsVarEstimation(c) \/ IsUncertValues(c)
    /\ "values" \in DOMAIN c.grid

\* the call got as far as marking the states below its threshold
StatesMarked(c) ==
    /\ IsRiskQae(c) \/ IsEnhanced(c) \/ IsVarEstimation(c)
    /\ "good_states" \in DOMAIN c.grid

StrictlyIncreasing(values) ==
    \A i, j \in DOMAIN values : i < j => values[i] < values[j]

\* C4: whenever distribution construction, circuit construction or the
\* estimate call fails inside calculate_risk_qae or
\* calculate_risk_qae_enhanced, the operation returns normally with the
\* fallback probability 0.05 and the failure does not reach the caller.
C4_FailureFallsBackToConstant ==
    ((IsRiskQae(last) \/ IsEnhanced(last)) /\ last.failure # "none") =>
        /\ last.status = "returned"
        /\ RatEq(last.prob, Rat(FallbackProbPct, 100))

\* C5: on every return path of calculate_risk_qae and
\* calculate_risk_qae_enhanced the reported tail probability lies in [0,1].
C5_ProbabilityInUnitInterval ==
    ((IsRiskQae(last) \/ IsEnhanced(last)) /\ last.status = "returned") =>
        InUnitInterval(last.prob)

\* C6: in every tail-probability operation, when no grid value is below
\* the threshold the reported probability is exactly 0 and the amplitude
\* estimator is not invoked in that call (no library call failing).
C6_EmptyBadSetSkipsEstimator ==
    (StatesMarked(last) /\ last.grid.good_states = {}
                        /\ last.failure = "none") =>
        /\ last.status = "returned"
        /\ RatEq(last.prob, Rat(0, 1))
        /\ last.estimator_calls = 0

\* C7: every operation deriving a sub-portfolio from a non-empty selection
\* uses a standard deviation p_sigma >= sqrt(1e-8) (one unit of 1e-4).
C7_SigmaAtLeastFloor ==
    ((IsRiskQae(last) \/ IsEnhanced(last)) /\ Indices(last.selection) # {}) =>
        last.grid.p_sigma >= ISqrt(VarFloor)

\* C8: in every grid construction, when the bounds are degenerate
\* (high <= low) the step is the fixed 0.01 and the grid values remain
\* distinct and increasing.
C8_DegenerateBoundsUseFixedStep ==
    (GridBuilt(last) /\ ~IsVarEstimation(last)
                     /\ last.grid.high <= last.grid.low) =>
        /\ RatEq(last.grid.step, Rat(FallbackStep, 1))
        /\ StrictlyIncreasing(last.grid.values)

\* C9: for p_sigma > 0, spread factor k in {3,4} and n >= 1 the grid
\* value(i) = low + i*(high-low)/(2^n - 1), i = 0..2^n-1, has exactly 2^n
\* values, is strictly increasing, starts at low = p_mu - k*p_sigma and
\* ends at high = p_mu + k*p_sigma.
C9_GridShape ==
    (GridBuilt(last) /\ last.grid.p_sigma > 0) =>
        LET g == last.grid
            size == Pow2(g.num_qubits)
        IN  /\ g.num_qubits >= 1
            /\ Len(g.values) = size
            /\ StrictlyIncreasing(g.values)
            /\ \E k \in {SpreadQae, SpreadEnhanced} :
                   /\ g.values[1] = (g.p_mu - k * g.p_sigma) * g.step.d
                   /\ g.values[size] = (g.p_mu + k * g.p_sigma) * g.step.d
            /\ \A j \in 1..size :
                   g.values[j] * (size - 1) =
                       g.step.d * (g.low * (size - 1) + (j - 1) * (g.high - g.low))

\* a grid of 16 values over a positive spread, cut by its threshold
C9_Witness ==
    /\ IsEnhanced(last) /\ GridBuilt(last)
    /\ last.grid.p_sigma > 0
    /\ last.grid.good_states # {}
    /\ Cardinality(last.grid.good_states) < Len(last.grid.values)

\* thresholds to cut a grid with: the configured ones and the grid's own ends
CutPoints(g) == Thresholds \cup {g.low, g.p_mu, g.high}

\* C10: for a fixed grid and thresholds t1 < t2 the indices marked for t1
\* are a subset of those marked for t2.
C10_BadSetMonotone ==
    StatesMarked(last) =>
        LET g == last.grid IN
        /\ g.good_states = GoodStates(g.values, g.step.d, last.threshold)
        /\ \A t1, t2 \in CutPoints(g) :
               t1 < t2 => GoodStates(g.values, g.step.d, t1)
                              \subseteq GoodStates(g.values, g.step.d, t2)

\* a grid on which raising the threshold adds states to a non-empty set
C10_Witness ==
    /\ StatesMarked(last) /\ (IsRiskQae(last) \/ IsEnhanced(last))
    /\ last.grid.good_states # {}
    /\ \E t2 \in CutPoints(last.grid) :
           /\ last.threshold < t2
           /\ last.grid.good_states
                  # GoodStates(last.grid.values, last.grid.step.d, t2)

\* the fields a risk report carries
ReportFields == {"var", "cvar", "expected_return", "volatility", "max_drawdown"}

\* C19: every record returned by calculate_var_cvar_classical, on the
\* empty-selection path as well as on the normal path, contains var, cvar,
\* expected_return, volatility and max_drawdown, and every record returned
\* by calculate_risk_qae_enhanced contains var_probability.
C19_ReportsCarryAllFields ==
    /\ IsClassical(last) => ReportFields \subseteq last.result.keys
    /\ (IsEnhanced(last) /\ last.status = "returned") =>
           "var_probability" \in last.keys

IsMarking(c) == c.op = "mark_bad_states"

\* C17: after the oracle-marking loop, for every n-bit basis state s the
\* objective bit has been flipped exactly once if s is in the bad-state set
\* and not at all otherwise, and the register bits equal s again; the
\* marked set is exactly {i : value(i) < threshold}.
C17_OracleMarksExactlyBadStates ==
    IsMarking(last) =>
        /\ \A s \in DOMAIN last.final :
              /\ last.final[s].flips =
                    IF s \in last.grid.good_states THEN 1 ELSE 0
              /\ last.final[s].reg = s
        /\ {s \in DOMAIN last.final : last.final[s].objective = 1} =
              {i - 1 : i \in {j \in DOMAIN last.grid.values :
                    last.grid.values[j] < last.threshold * last.grid.step.d}}

\* a circuit that marks several states, leaves others unmarked, and whose
\* bad set is not closed under complementing every bit
C17_Witness ==
    /\ IsMarking(last)
    /\ Cardinality(last.grid.good_states) >= 2
    /\ \E s \in DOMAIN last.final :
          /\ s \in last.grid.good_states
          /\ (Pow2(last.grid.num_qubits) - 1 - s) \notin last.grid.good_states
          /\ last.final[s].objective = 1

IsOptimize(c) == c.op = "run_quantum_portfolio_optimization"

Ones(selection) == Cardinality({i \in DOMAIN selection : selection[i] = 1})

\* C11: for every run of run_quantum_portfolio_optimization over N assets,
\* if the solver finds a solution the returned selection has exactly budget
\* entries equal to 1, and if it finds none (result.x is None) the returned
\* selection is the all-zero vector of length N.
C11_SelectionMeetsBudgetOrAllZero ==
    IsOptimize(last) =>
        /\ last.found => Ones(last.selection) = last.budget
        /\ ~last.found => last.selection = [i \in 1..last.n |-> 0]

IsAnalyze(c) == c.op = "analyze"

\* the text is empty or whitespace-only
AllBlank(text) == \A i \in DOMAIN text : text[i] = Blank

\* the text, leading whitespace aside, begins with a URL scheme
IsUrlText(text) ==
    \E i \in DOMAIN text :
        text[i] \in Schemes /\ \A j \in 1..(i - 1) : text[j] = Blank

\* the request carries no usable text: it is empty or whitespace-only, or
\* it is a URL and get_text_from_url returned the empty string
NoText(c) ==
    /\ c.request.json = "object"
    /\ \/ AllBlank(c.request.text)
       \/ IsUrlText(c.request.text) /\ c.scraped = <<>>

MarketSteps ==
    {"analyze_market", "run_quantum_portfolio_optimization",
     "calculate_risk_qae"}

\* C15: the /api/analyze handler answers 400 with status 'error' exactly
\* when the text is empty or whitespace-only or is a URL whose scrape yields
\* no text, and then no market analysis, selection or risk estimation step
\* is executed; any exception raised by a later step yields 500 with status
\* 'error' and a message; an error response never contains analysis,
\* candidates or result fields.
C15_ErrorResponses ==
    IsAnalyze(last) =>
        /\ (last.http = 400) <=> NoText(last)
        /\ last.http = 400 =>
              /\ last.status = "error"
              /\ \A i \in DOMAIN last.steps : last.steps[i] \notin MarketSteps
        /\ last.raised # "none" =>
              /\ last.http = 500
              /\ last.status = "error"
              /\ "message" \in last.keys
        /\ last.status = "error" =>
              last.keys \cap {"analysis", "candidates", "result"} = {}

\* a URL with leading whitespace whose page gave no text: answered 400
\* after the scrape and before any market step
C15_Witness ==
    /\ IsAnalyze(last)
    /\ last.request.text # <<>> /\ Head(last.request.text) = Blank
    /\ last.steps = <<"get_text_from_url">>
    /\ last.http = 400

\* the request is an object whose text is non-empty and no URL
PlainText(c) ==
    /\ c.request.json = "object"
    /\ ~AllBlank(c.request.text)
    /\ ~IsUrlText(c.request.text)

ResultFields ==
    {"selected_tickers", "selected_names", "weights", "expected_return",
     "risk_probability", "optimal_value"}

\* C16: for a POST /api/analyze with non-empty plain text the handler
\* consumes the value of analyze_market as a record with fields tickers, mu,
\* sigma and names, runs the selector and then the risk estimator on the
\* selector's selection, and responds with status 'success' and a result
\* carrying selected_tickers, selected_names, weights, expected_return,
\* risk_probability and optimal_value.
C16_PlainTextSucceeds ==
    (IsAnalyze(last) /\ PlainText(last)) =>
        /\ last.steps = <<"analyze_market",
                          "run_quantum_portfolio_optimization",
                          "calculate_risk_qae">>
        /\ last.status = "success"
        /\ "result" \in last.keys
        /\ ResultFields \subseteq DOMAIN last.result

\* the handler accepted the request: it is an object with usable text
Accepted(c) == c.request.json = "object" /\ ~NoText(c)

Zero == Rat(0, 1)

\* C12: when the selector returns no holdings (an empty or all-zero
\* selection) every downstream operation completes without error and
\* reports zero: calculate_risk_qae returns 0.0, calculate_risk_qae_enhanced
\* reports var_probability 0.0, calculate_var_cvar_classical reports var =
\* cvar = expected_return = volatility = 0, and the /api/analyze handler
\* completes the request it accepted and reports expected_return 0 with
\* empty selected_tickers and weights.
C12_NoHoldingsReportZero ==
    /\ ((IsRiskQae(last) \/ IsEnhanced(last))
            /\ Indices(last.selection) = {}) =>
          /\ last.status = "returned"
          /\ RatEq(last.prob, Zero)
    /\ (IsClassical(last) /\ Indices(last.selection) = {}) =>
          /\ last.status = "returned"
          /\ RatEq(last.result.var, Zero)
          /\ RatEq(last.result.cvar, Zero)
          /\ last.result.expected_return = 0
          /\ last.result.volatility = 0
    /\ (IsAnalyze(last) /\ Accepted(last)) =>
          /\ last.status = "success"
          /\ Indices(last.selection) = {} =>
                /\ last.result.expected_return = 0
                /\ last.result.selected_tickers = <<>>
                /\ last.result.weights = <<>>

\* C18: for every selection with k >= 1 entries greater than 0.5, whether
\* or not k equals the budget, the risk operations and the /api/analyze
\* handler weigh each selected asset 1/k and every other asset 0: the
\* portfolio mean is the mean of the selected assets' mu, the handler's
\* weights list has exactly k entries of 1/k, and the handler's
\* expected_return equals the p_mu used by the risk estimator.
C18_EqualWeights ==
    /\ ((IsRiskQae(last) \/ IsEnhanced(last)) /\ GridBuilt(last)) =>
          LET idx == Indices(last.selection)
              k == Cardinality(idx)
              total == SumOver(idx, stats.mu)
          IN  /\ k >= 1
              /\ last.grid.p_mu * k <= total
              /\ total < (last.grid.p_mu + 1) * k
    /\ (IsAnalyze(last) /\ Accepted(last)) =>
          /\ last.status = "success"
          /\ LET k == Cardinality(Indices(last.selection))
             IN  k >= 1 =>
                   /\ Len(last.result.weights) = k
                   /\ \A j \in 1..k : RatEq(last.result.weights[j], Rat(1, k))
                   /\ GridBuilt(last.risk) =>
                         last.result.expected_return = last.risk.grid.p_mu

IsGetStockData(c) == c.op = "get_stock_data"

IsSynthetic(record) == "synthetic" \in DOMAIN record /\ record.synthetic

FetchFailed(c) == c.outcome \in {"raise", "empty", "short"}

\* C14: whenever the statistics fetch in get_stock_data fails for any
\* reason (exception from the provider, empty data, fewer than 20 return
\* rows) the call returns normally with the synthetic record carrying
\* synthetic = True, built with the fixed seed 42 so that the same number of
\* tickers always yields the same mu and sigma; a successful fetch never
\* carries synthetic = True.
C14_FailedFetchGivesSeededSynthetic ==
    IsGetStockData(last) =>
        /\ FetchFailed(last) =>
              /\ last.status = "returned"
              /\ IsSynthetic(last.record)
              /\ \A i \in DOMAIN cache :
                    (IsSynthetic(cache[i].record)
                        /\ Len(cache[i].record.tickers)
                             = Len(last.record.tickers)) =>
                       /\ cache[i].record.mu = last.record.mu
                       /\ cache[i].record.sigma = last.record.sigma
        /\ last.outcome = "ok" => ~IsSynthetic(last.record)

\* a failed fetch whose synthetic record sits in the cache next to the
\* synthetic record made earlier for another key with as many tickers
C14_Witness ==
    /\ IsGetStockData(last)
    /\ FetchFailed(last)
    /\ \E i \in DOMAIN cache :
          /\ cache[i].key # last.key
          /\ IsSynthetic(cache[i].record)
          /\ Len(cache[i].record.tickers) = Len(last.record.tickers)

\* C20 as stated: after a call whose fetch failed and returned the
\* synthetic record, every later call with the same key returns that
\* synthetic record without attempting the fetch again until clear_cache
\* is called; after clear_cache the next call attempts the fetch again; the
\* cache never holds more than its capacity.
C20_SyntheticServedUntilClear ==
    /\ Len(cache) <= MaxSize
    /\ IsGetStockData(last) =>
          /\ last.failed_before # "no" =>
                ~last.fetched /\ IsSynthetic(last.record)
          /\ last.after = "clear_cache" => last.fetched

\* C20, amended: after a call whose fetch failed and returned the synthetic
\* record, every later call with the same key returns that synthetic
\* record without attempting the fetch again for as long as the entry is in
\* the cache, that is until clear_cache is called or the entry is dropped
\* as the least recently used one of a full cache; after clear_cache the
\* next call attempts the fetch again; the cache never holds more than its
\* capacity.
C20_SyntheticServedWhileCached ==
    /\ Len(cache) <= MaxSize
    /\ IsGetStockData(last) =>
          /\ last.failed_before = "held" =>
                ~last.fetched /\ IsSynthetic(last.record)
          /\ last.after = "clear_cache" => last.fetched

\* a call served from the cache with the synthetic record of an earlier
\* failed fetch, in a full cache
C20_Witness ==
    /\ IsGetStockData(last)
    /\ last.failed_before = "held"
    /\ ~last.fetched
    /\ IsSynthetic(last.record)
    /\ Len(cache) = MaxSize

====
